---- MODULE Spec2Model ----
(***************************************************************************)
(* A model of tornado_aws: the credential provider                         *)
(* (tornado_aws.config.Authorization), the error classifier                *)
(* (AWSClient._process_error) and the request executor (AWSClient.fetch    *)
(* and AsyncAWSClient.fetch).                                              *)
(*                                                                         *)
(* Python values are modelled as records [src, fld, n]: src says where the *)
(* value came from, fld which piece of data it is, n which one of several. *)
(* None and the empty string are two such values; both are falsy.          *)
(***************************************************************************)
EXTENDS Integers, Sequences, FiniteSets, TLC

\* ------------------------------------------------------------------------
\* Bounds of the model
\* ------------------------------------------------------------------------

\* number of fetch() invocations of one client that are in progress, or
\* finished and not yet looked at by the caller, at the same time
NumFetch == 2

\* number of distinct credential sets the instance metadata API can issue
MaxIssued == 2

\* the attempts of one fetch that are signed: the first and the retry
MaxAttempts == 2

\* ------------------------------------------------------------------------
\* Values
\* ------------------------------------------------------------------------

None == [src |-> "None", fld |-> "", n |-> 0]

EmptyStr == [src |-> "str", fld |-> "", n |-> 0]

Val(src, fld, n) == [src |-> src, fld |-> fld, n |-> n]

\* Python truthiness of a value: None and '' are false
Truthy(v) == v # None /\ v # EmptyStr

\* the transport object a client owns (httpclient.HTTPClient or
\* httpclient.AsyncHTTPClient), as a value
ClientObject(mode) == Val("client", mode, 0)

\* ------------------------------------------------------------------------
\* Construction inputs: arguments, environment, shared credentials file
\* ------------------------------------------------------------------------

\* os.getenv(name, default) over the modelled environment
Getenv(env, name, default) == IF env[name] = None THEN default ELSE env[name]

\* value of `key` in `section` of a parsed file, or `default` (dict.get)
ConfigGet(file, section, key, default) ==
    IF \E t \in file.kv : t[1] = section /\ t[2] = key
    THEN (CHOOSE t \in file.kv : t[1] = section /\ t[2] = key)[3]
    ELSE default

\* a lookup that reads the profile's section only
GetConfigValueProfileOnly(file, profile, key) ==
    ConfigGet(file, profile, key, None)

\* Authorization._get_config_value: the profile's value, else the default
\* section's value, else None
GetConfigValue(file, profile, key) ==
    ConfigGet(file, profile, key, ConfigGet(file, "default", key, None))

\* Python `a or b`
Or(a, b) == IF Truthy(a) THEN a ELSE b

\* Authorization._resolve_config_file_credentials applied to provider `a`.
\* The result carries `raised`: "none" or the exception that escaped.
ResolveConfigFileCredentials(a, in) ==
    IF ~in.file.exists
    THEN [a EXCEPT !.raised = "none"]
    ELSE IF in.profile \notin in.file.sections
    THEN [a EXCEPT !.raised = "NoProfileError"]
    ELSE LET ak == GetConfigValue(in.file, in.profile, "aws_access_key_id")
             sk == GetConfigValue(in.file, in.profile, "aws_secret_access_key")
             tk == Or(GetConfigValue(in.file, in.profile, "aws_security_token"),
                      GetConfigValue(in.file, in.profile, "aws_session_token"))
         IN  [a EXCEPT !.access_key = ak,
                       !.secret_key = sk,
                       !.security_token = tk,
                       !.expiration = ak,
                       !.local_credentials = (ak # None /\ sk # None),
                       !.raised = "none"]

\* Authorization._resolve_credentials(access_key, secret_key, security_token)
ResolveCredentials(a, in, access_key, secret_key, security_token) ==
    LET ak == Getenv(in.env, "AWS_ACCESS_KEY_ID", access_key)
        sk == Getenv(in.env, "AWS_SECRET_ACCESS_KEY", secret_key)
        tk == Getenv(in.env, "AWS_SECURITY_TOKEN",
                     Getenv(in.env, "AWS_SESSION_TOKEN", security_token))
        b  == [a EXCEPT !.local_credentials = FALSE,
                        !.access_key = ak,
                        !.secret_key = sk,
                        !.security_token = tk,
                        !.raised = "none"]
    IN  IF Truthy(ak) /\ Truthy(sk)
        THEN [b EXCEPT !.local_credentials = TRUE]
        ELSE ResolveConfigFileCredentials(b, in)

\* _is_async_client(client)
IsAsyncClient(client) == client = ClientObject("async")

\* Authorization.__init__(profile, access_key, secret_key, security_token,
\* client)
NewAuthorization(in, access_key, secret_key, security_token, client) ==
    LET a0 == [client |-> client,
               local_credentials |-> FALSE,
               access_key |-> None,
               secret_key |-> None,
               security_token |-> None,
               expiration |-> None,
               is_async |-> FALSE,
               raised |-> "none"]
        a1 == ResolveCredentials(a0, in, access_key, secret_key,
                                 security_token)
    IN  [a1 EXCEPT !.is_async = IsAsyncClient(client)]

\* AWSClient.__init__ / AsyncAWSClient.__init__: the provider the client
\* builds.  The transport is passed as the fourth positional argument of
\* Authorization.__init__, which is security_token; client stays None.
ClientAuthorization(in, mode) ==
    NewAuthorization(in, in.access_key, in.secret_key, ClientObject(mode),
                     None)

\* A provider built as Authorization(profile, ..., client=transport), the
\* way tests/config_tests.py builds it
DirectAuthorization(in, mode) ==
    NewAuthorization(in, in.access_key, in.secret_key, None,
                     ClientObject(mode))

\* ------------------------------------------------------------------------
\* Provider operations
\* ------------------------------------------------------------------------

\* Authorization.needs_credentials
NeedsCredentials(a) == ~Truthy(a.access_key) \/ ~Truthy(a.secret_key)

\* a reset that forgets the security token
ResetKeepsToken(a) ==
    [a EXCEPT !.access_key = None, !.secret_key = None, !.expiration = None]

\* a reset that clears only the token and the expiration
ResetKeepsKeys(a) ==
    [a EXCEPT !.expiration = None, !.security_token = None]

\* Authorization.reset
Reset(a) ==
    [a EXCEPT !.access_key = None,
              !.secret_key = None,
              !.expiration = None,
              !.security_token = None]

\* Authorization._assign_credentials(data): the four fields are assigned in
\* the order AccessKeyId, SecretAccessKey, Expiration, Token; a key missing
\* from data raises KeyError and leaves the earlier assignments in place.
AssignCredentials(a, data) ==
    LET has(k) == k \in data.keys
        v(k) == Val("metadata", k, data.n)
        a1 == IF has("AccessKeyId")
              THEN [a EXCEPT !.access_key = v("AccessKeyId")] ELSE a
        a2 == IF has("AccessKeyId") /\ has("SecretAccessKey")
              THEN [a1 EXCEPT !.secret_key = v("SecretAccessKey")] ELSE a1
        a3 == IF {"AccessKeyId", "SecretAccessKey", "Expiration"}
                     \subseteq data.keys
              THEN [a2 EXCEPT !.expiration = v("Expiration")] ELSE a2
        a4 == IF {"AccessKeyId", "SecretAccessKey", "Expiration", "Token"}
                     \subseteq data.keys
              THEN [a3 EXCEPT !.security_token = v("Token")] ELSE a3
    IN  [a4 EXCEPT !.raised =
            IF {"AccessKeyId", "SecretAccessKey", "Expiration", "Token"}
                   \subseteq data.keys
            THEN "none" ELSE "KeyError"]

\* ------------------------------------------------------------------------
\* Error classifier
\* ------------------------------------------------------------------------

_REFRESH_EXCEPTIONS ==
    {"AuthFailure", "AuthMissingFailure", "AWS.InvalidAccount",
     "ExpiredTokenException", "InvalidSignatureException",
     "MissingAuthenticationTokenException", "UnrecognizedClientException"}

\* a list of XML codes that shares no code with _REFRESH_EXCEPTIONS
RefreshXmlExceptionsApart ==
    {"ExpiredToken", "InvalidClientTokenId",
     "InvalidSecurity", "MissingAuthenticationToken",
     "SignatureDoesNotMatch"}

_REFRESH_XML_EXCEPTIONS ==
    {"AuthFailure", "ExpiredToken", "InvalidClientTokenId",
     "InvalidSecurity", "MissingAuthenticationToken",
     "SignatureDoesNotMatch"}

\* A response body is [shape, code, fields]:
\*   shape "awz"      : a JSON object with a __type field; code is __type
\*                      split at each '#'; fields says whether it has a
\*                      "message" member
\*   shape "json"     : valid JSON without a __type field
\*   shape "xml"      : <Error><Code>c</Code>..</Error>; code is <<c>>,
\*                      fields the other child elements of Error
\*   shape "xmlother" : well-formed XML of no known error shape, whose root
\*                      has child elements, none of them Message
\*   shape "xmlempty" : well-formed XML whose root element has no children,
\*                      text or attributes
\*   shape "text"     : neither JSON nor XML
BodyWith(shape, code, fields) ==
    [shape |-> shape, code |-> code, fields |-> fields]

\* a body whose error carries a message and nothing else
Body(shape, code) == BodyWith(shape, code, {"Message", "message"})

\* the text of member or element `name` of a body
BodyVal(name) == Val("body", name, 0)

NoBody == BodyWith("none", <<>>, {})

\* a _parse_awz_error that leaves __type as it is
ParseAwzErrorKeepsNamespace(body) ==
    IF body.shape \notin {"awz", "json"}
    THEN [raised |-> "ValueError", found |-> FALSE, type |-> <<>>,
          fields |-> {}]
    ELSE IF body.shape = "json"
    THEN [raised |-> "none", found |-> FALSE, type |-> <<>>, fields |-> {}]
    ELSE [raised |-> "none", found |-> TRUE, type |-> body.code,
          fields |-> body.fields]

\* AWSClient._parse_awz_error: [raised, found, type, fields]; the part of
\* __type up to and including its first '#' is dropped
ParseAwzError(body) ==
    IF body.shape \notin {"awz", "json"}
    THEN [raised |-> "ValueError", found |-> FALSE, type |-> <<>>,
          fields |-> {}]
    ELSE IF body.shape = "json"
    THEN [raised |-> "none", found |-> FALSE, type |-> <<>>, fields |-> {}]
    ELSE [raised |-> "none", found |-> TRUE,
          type |-> IF Len(body.code) > 1 THEN Tail(body.code) ELSE body.code,
          fields |-> body.fields]

\* AWSClient._parse_xml_error: [raised, Code, fields].  A root element
\* without content makes `'Message' in payload[key]` a TypeError.
ParseXmlError(body) ==
    IF body.shape = "xml"
    THEN [raised |-> "none", Code |-> body.code, fields |-> body.fields]
    ELSE IF body.shape = "xmlempty"
    THEN [raised |-> "TypeError", Code |-> <<>>, fields |-> {}]
    ELSE [raised |-> "ValueError", Code |-> <<>>, fields |-> {}]

NoAwsError ==
    [is |-> FALSE, type |-> <<>>, message |-> None, request_id |-> None,
     resource |-> None]

AWSError(type, message, request_id, resource) ==
    [is |-> TRUE, type |-> type, message |-> message,
     request_id |-> request_id, resource |-> resource]

\* an _aws_error_from_xml that takes the resource from HostId
AwsErrorFromXmlHostId(error) ==
    IF "Message" \notin error.fields
    THEN [raised |-> "KeyError", aws |-> NoAwsError]
    ELSE [raised |-> "none",
          aws |-> AWSError(error.Code, BodyVal("Message"),
                           IF "RequestId" \in error.fields
                           THEN BodyVal("RequestId")
                           ELSE IF "x-amzn-RequestId" \in error.fields
                           THEN BodyVal("x-amzn-RequestId") ELSE None,
                           IF "HostId" \in error.fields
                           THEN BodyVal("HostId") ELSE None)]

\* AWSClient._aws_error_from_xml(error): [raised, aws]
AwsErrorFromXml(error) ==
    IF "Message" \notin error.fields
    THEN [raised |-> "KeyError", aws |-> NoAwsError]
    ELSE [raised |-> "none",
          aws |-> AWSError(error.Code, BodyVal("Message"),
                           IF "RequestId" \in error.fields
                           THEN BodyVal("RequestId")
                           ELSE IF "x-amzn-RequestId" \in error.fields
                           THEN BodyVal("x-amzn-RequestId") ELSE None,
                           IF "Resource" \in error.fields
                           THEN BodyVal("Resource") ELSE None)]

\* a membership test that takes every code for a member
InListAlways(type, list) == Len(type) = 1

\* membership of a code, kept as its '#'-separated segments, in a list of
\* code strings none of which contains '#'
InList(type, list) == Len(type) = 1 /\ type[1] \in list

\* AWSClient._process_error(error): [raised, need, aws]
ProcessError(error) ==
    IF error.code = 599
    THEN [raised |-> "none", need |-> FALSE, aws |-> NoAwsError]
    ELSE IF error.code = 400 /\ error.awz
    THEN LET awz_error == ParseAwzError(error.body)
         IN  IF awz_error.raised # "none"
             THEN [raised |-> awz_error.raised, need |-> FALSE,
                   aws |-> NoAwsError]
             ELSE IF ~awz_error.found
             THEN [raised |-> "TypeError", need |-> FALSE,
                   aws |-> NoAwsError]
             ELSE [raised |-> "none",
                   need |-> InList(awz_error.type, _REFRESH_EXCEPTIONS),
                   aws |-> AWSError(awz_error.type,
                                    IF "message" \in awz_error.fields
                                    THEN BodyVal("message")
                                    ELSE Val("str", "(null)", 0),
                                    None, None)]
    ELSE LET xml_error == ParseXmlError(error.body)
             aws_error == AwsErrorFromXml(xml_error)
         IN  IF xml_error.raised = "ValueError"
             THEN [raised |-> "none", need |-> FALSE, aws |-> NoAwsError]
             ELSE IF xml_error.raised # "none"
             THEN [raised |-> xml_error.raised, need |-> FALSE,
                   aws |-> NoAwsError]
             ELSE IF aws_error.raised # "none"
             THEN [raised |-> aws_error.raised, need |-> FALSE,
                   aws |-> NoAwsError]
             ELSE [raised |-> "none",
                   need |-> InList(xml_error.Code, _REFRESH_XML_EXCEPTIONS),
                   aws |-> aws_error.aws]

\* ------------------------------------------------------------------------
\* State
\* ------------------------------------------------------------------------

VARIABLES
    inputs,     \* what the client was constructed from: arguments,
                \* environment, shared credentials file, profile
    mode,       \* "sync": AWSClient, "async": AsyncAWSClient
    built,      \* "none" or the exception the constructor raised
    auth,       \* the provider, Authorization (client._auth_config)
    fetches,    \* one record per fetch() invocation of the caller
    call,       \* the last direct call of a provider method and its result
    probe       \* the last direct call of a function of the package that
                \* keeps no state (get_region, _process_error), its
                \* arguments and its result

vars == <<inputs, mode, built, auth, fetches, call, probe>>

Fetches == 1 .. NumFetch

\* ------------------------------------------------------------------------
\* Inputs of the environment
\* ------------------------------------------------------------------------

\* what the transport answers to a signed API request
Ok2xx == [kind |-> "ok", code |-> 200, awz |-> FALSE, body |-> NoBody]

HTTPError(code, awz, body) ==
    [kind |-> "HTTPError", code |-> code, awz |-> awz, body |-> body]

\* socket.error / OSError: no HTTP response at all
SocketError == [kind |-> "OSError", code |-> 0, awz |-> FALSE, body |-> NoBody]

ExpiredTokenXml == HTTPError(400, FALSE, Body("xml", <<"ExpiredToken">>))

MissingTokenAwz ==
    HTTPError(400, TRUE,
              Body("awz", <<"com.amazonaws.dynamodb.v20120810",
                            "MissingAuthenticationTokenException">>))

InvalidActionXml == HTTPError(400, FALSE, Body("xml", <<"InvalidAction">>))

SlowDownText == HTTPError(503, FALSE, BodyWith("text", <<>>, {}))

Timeout599 == HTTPError(599, FALSE, NoBody)

JsonNoTypeAwz == HTTPError(400, TRUE, BodyWith("json", <<>>, {}))

ResourceNotFoundAwz ==
    HTTPError(400, TRUE, Body("awz", <<"ResourceNotFoundException">>))

\* an error page whose XML is a single empty element
EmptyRootXml == HTTPError(500, FALSE, BodyWith("xmlempty", <<>>, {}))

ApiOutcomes ==
    {Ok2xx, ExpiredTokenXml, MissingTokenAwz, InvalidActionXml,
     ResourceNotFoundAwz, SlowDownText, Timeout599, SocketError,
     JsonNoTypeAwz, EmptyRootXml}

\* what the instance metadata API answers to a GET
MetaOk == [kind |-> "ok", code |-> 200]

MetaErrors ==
    {[kind |-> "HTTPError", code |-> 599],
     [kind |-> "HTTPError", code |-> 502],
     [kind |-> "OSError", code |-> 0]}

AllKeys == {"AccessKeyId", "SecretAccessKey", "Expiration", "Token"}

\* the JSON object of the role-credentials GET: complete, or cut short
CredentialsData ==
    [keys : {AllKeys}, n : 1 .. MaxIssued]
    \cup [keys : {{"AccessKeyId", "SecretAccessKey"}}, n : {1}]

\* ------------------------------------------------------------------------
\* One fetch() invocation
\* ------------------------------------------------------------------------

NoOutcome == [kind |-> "none", type |-> <<>>, code |-> 0, via |-> "none"]

IdleFetch ==
    [pc |-> "idle",         \* idle, role, creds, refreshed, sent, done, hung
     recursed |-> FALSE,    \* the recursed argument of the running call
     entry_needs |-> FALSE, \* needs_credentials() as the caller's call began
     sends |-> 0,           \* requests handed to the transport
     responses |-> <<>>,    \* what the transport answered, per request
     refreshes |-> 0,       \* calls of Authorization.refresh
     resets |-> 0,          \* calls of Authorization.reset
     resolved |-> 0,        \* times the returned future was resolved
     outcome |-> NoOutcome]

Active(r) == r.pc \in {"role", "creds", "refreshed", "sent"}

\* The call ends. how = "result": it returns a response / resolves the
\* future; "error": it raises / sets the exception on the future; "throw":
\* an exception escapes the running code, which in a callback of the IOLoop
\* is logged and dropped, the future staying pending.
Deliver(r, kind, type, code, how, inCallback) ==
    IF mode = "sync"
    THEN [r EXCEPT !.pc = "done",
                   !.outcome = [kind |-> kind, type |-> type, code |-> code,
                                via |-> IF how = "result" THEN "return"
                                        ELSE "raise"]]
    ELSE IF how = "throw"
    THEN IF inCallback
         THEN [r EXCEPT !.pc = "hung",
                        !.outcome = [kind |-> kind, type |-> type,
                                     code |-> code, via |-> "dropped"]]
         ELSE [r EXCEPT !.pc = "done",
                        !.outcome = [kind |-> kind, type |-> type,
                                     code |-> code, via |-> "raise"]]
    ELSE [r EXCEPT !.pc = "done",
                   !.resolved = @ + 1,
                   !.outcome = [kind |-> kind, type |-> type, code |-> code,
                                via |-> "future"]]

\* AWSClient._signed_request, `if self._auth_config.security_token`: the
\* value of the X-Amz-Security-Token header of a request signed with the
\* credentials of provider a, None if the header is not set
SecurityTokenHeader(a) ==
    IF Truthy(a.security_token) THEN a.security_token ELSE None

\* AWSClient._create_request and the transport's fetch: the request is signed
\* with the provider's credentials as they are now, and sent
PerformRequest(a, r) ==
    [a |-> a,
     r |-> [r EXCEPT !.pc = "sent", !.sends = @ + 1]]

\* Authorization.refresh up to its first suspension point (lines 203-212
\* and the first GET of _fetch_credentials): [a, to, exc].  to = "role": the
\* role-name GET is issued; "resolved": the future is resolved at once;
\* "raise": exc escapes refresh().
RefreshStart(a) ==
    IF a.local_credentials
    THEN IF ~a.is_async
         THEN [a |-> a, to |-> "raise", exc |-> "AttributeError"]
         ELSE LET b == ResolveCredentials(a, inputs, None, None, None)
              IN  IF b.raised # "none"
                  THEN [a |-> [b EXCEPT !.raised = "none"], to |-> "raise",
                        exc |-> b.raised]
                  ELSE [a |-> b, to |-> "resolved", exc |-> "none"]
    ELSE IF a.client = None
    THEN [a |-> a, to |-> "raise", exc |-> "AttributeError"]
    ELSE [a |-> a, to |-> "role", exc |-> "none"]

\* `self._auth_config.refresh()` inside fetch
RefreshEntry(a, r, inCallback) ==
    LET s == RefreshStart(a)
    IN  [a |-> s.a,
         r |-> IF s.to = "raise"
               THEN Deliver(r, s.exc, <<>>, 0, "throw", inCallback)
               ELSE [r EXCEPT !.pc = IF s.to = "role" THEN "role"
                                     ELSE "refreshed"]]

\* a fetch that signs and sends without asking needs_credentials()
EnterWithoutRefresh(a, r, inCallback) == PerformRequest(a, r)

\* a fetch that starts no refresh of its own while another fetch of the
\* client awaits one, and waits for that one instead
EnterSingleFlight(a, r, inCallback) ==
    IF NeedsCredentials(a)
    THEN IF \E g \in 1 .. NumFetch : fetches[g].pc \in {"role", "creds"}
         THEN [a |-> a, r |-> [r EXCEPT !.pc = "refreshed"]]
         ELSE RefreshEntry(a, [r EXCEPT !.refreshes = @ + 1], inCallback)
    ELSE PerformRequest(a, r)

\* The body of fetch up to its first suspension point: refresh if the
\* provider needs credentials, else sign and send
Enter(a, r, inCallback) ==
    IF NeedsCredentials(a)
    THEN RefreshEntry(a, [r EXCEPT !.refreshes = @ + 1], inCallback)
    ELSE PerformRequest(a, r)

\* the names tornado_aws.exceptions defines
ExceptionsModule ==
    {"AWSClientException", "AWSError", "ConfigNotFound", "ConfigParserError",
     "LocalCredentialsError", "NoCredentialsError", "NoProfileError"}

\* evaluating exceptions.<name>(...): the exception built, or the
\* AttributeError of a name the module does not define
ExceptionNamed(name) ==
    IF name \in ExceptionsModule THEN name ELSE "AttributeError"

\* a refresh that turns every failed metadata GET into NoCredentialsError
RefreshExceptionAlways(a, o) ==
    [kind |-> ExceptionNamed("NoCredentialsError"), code |-> 0]

\* how a failed metadata GET ends Authorization.refresh: the blocking code
\* turns every HTTPError and OSError into NoCredentialsError (lines 231-233),
\* on_complete only an HTTPError with code 599 (lines 216-224)
RefreshException(a, o) ==
    IF ~a.is_async \/ (o.kind = "HTTPError" /\ o.code = 599)
    THEN [kind |-> ExceptionNamed("NoCredentialsError"), code |-> 0]
    ELSE [kind |-> o.kind, code |-> o.code]

\* a refresh that failed ends the fetch that waits for it (on_refreshed,
\* lines 624-626; in the blocking client the exception propagates)
RefreshFailed(a, r, o) ==
    Deliver(r, RefreshException(a, o).kind, <<>>, RefreshException(a, o).code,
            "error", TRUE)

\* raising the transport's error where the classified one is meant
RaiseRawError(r, pe, o) ==
    Deliver(r, "HTTPError", <<>>, o.code, "error", TRUE)

\* `raise aws_error if aws_error else error`
RaiseClassified(r, pe, o) ==
    IF pe.aws.is
    THEN Deliver(r, ExceptionNamed("AWSError"), pe.aws.type, o.code, "error",
                 TRUE)
    ELSE Deliver(r, "HTTPError", <<>>, o.code, "error", TRUE)

\* a reset that does not look at the origin of the credentials
MayResetAnyOrigin(pe, a) == pe.need

\* a retry that does not look at the recursed flag
MayRetryAlways(r) == TRUE

\* `if need_credentials and not self._auth_config.local_credentials`
MayReset(pe, a) == pe.need /\ ~a.local_credentials

\* `if not recursed`
MayRetry(r) == ~r.recursed

\* the except-clauses of AWSClient.fetch (lines 175-185) and on_response of
\* AsyncAWSClient.fetch (lines 593-616) for transport answer o
OnResponse(a, r, o) ==
    IF o.kind = "ok"
    THEN [a |-> a, r |-> Deliver(r, "response", <<>>, o.code, "result", TRUE)]
    ELSE IF o.kind = "OSError"
    THEN [a |-> a,
          r |-> Deliver(r, ExceptionNamed("RequestException"), <<>>, 0,
                        IF ExceptionNamed("RequestException")
                               = "RequestException"
                        THEN "error" ELSE "throw", TRUE)]
    ELSE LET pe == ProcessError(o)
         IN  IF pe.raised # "none"
             THEN [a |-> a,
                   r |-> Deliver(r, pe.raised, <<>>, 0, "throw", TRUE)]
             ELSE IF MayReset(pe, a)
             THEN LET r2 == [r EXCEPT !.resets = @ + 1]
                  IN  IF MayRetry(r)
                      THEN Enter(Reset(a), [r2 EXCEPT !.recursed = TRUE],
                                 TRUE)
                      ELSE [a |-> Reset(a), r |-> RaiseClassified(r2, pe, o)]
             ELSE [a |-> a, r |-> RaiseClassified(r, pe, o)]

\* ------------------------------------------------------------------------
\* Actions of the executor
\* ------------------------------------------------------------------------

\* no other invocation has finished and waits for the caller to look at it
Unobserved(f) ==
    \A g \in Fetches \ {f} : fetches[g].pc \notin {"done", "hung"}

\* the caller invokes client.fetch(...)
FetchCall(f) ==
    /\ built = "none"
    /\ fetches[f].pc = "idle"
    /\ \A g \in Fetches : g < f => fetches[g].pc # "idle"
    /\ Unobserved(f)
    /\ mode = "sync" => \A g \in Fetches : ~Active(fetches[g])
    /\ LET e == Enter(auth,
                       [IdleFetch EXCEPT !.entry_needs =
                                             NeedsCredentials(auth)],
                       FALSE)
       IN  /\ auth' = e.a
           /\ fetches' = [fetches EXCEPT ![f] = e.r]
    /\ UNCHANGED <<probe, inputs, mode, built, call>>

\* the role-name GET of _get_role / _get_role_async completes
RoleResponse(f) ==
    /\ fetches[f].pc = "role"
    /\ Unobserved(f)
    /\ \E o \in {MetaOk} \cup MetaErrors :
         fetches' = [fetches EXCEPT ![f] =
                        IF o.kind = "ok" THEN [@ EXCEPT !.pc = "creds"]
                        ELSE RefreshFailed(auth, @, o)]
    /\ UNCHANGED <<probe, inputs, mode, built, auth, call>>

\* the role-credentials GET fails
CredentialsError(f) ==
    /\ fetches[f].pc = "creds"
    /\ Unobserved(f)
    /\ \E o \in MetaErrors :
         fetches' = [fetches EXCEPT ![f] = RefreshFailed(auth, @, o)]
    /\ UNCHANGED <<probe, inputs, mode, built, auth, call>>

\* the role-credentials GET answers: _assign_credentials, and in the blocking
\* client the rest of fetch up to the transport call
CredentialsResponse(f) ==
    /\ fetches[f].pc = "creds"
    /\ Unobserved(f)
    /\ \E d \in CredentialsData :
         LET b == AssignCredentials(auth, d)
             c == [b EXCEPT !.raised = "none"]
         IN  IF b.raised # "none"
             THEN /\ auth' = c
                  /\ fetches' = [fetches EXCEPT ![f] =
                         Deliver(@, b.raised, <<>>, 0, "throw", TRUE)]
             ELSE IF mode = "sync"
             THEN LET e == PerformRequest(c, fetches[f])
                  IN  /\ auth' = e.a
                      /\ fetches' = [fetches EXCEPT ![f] = e.r]
             ELSE /\ auth' = c
                  /\ fetches' = [fetches EXCEPT ![f].pc = "refreshed"]
    /\ UNCHANGED <<probe, inputs, mode, built, call>>

\* on_refreshed of AsyncAWSClient.fetch runs: perform_request
Refreshed(f) ==
    /\ fetches[f].pc = "refreshed"
    /\ Unobserved(f)
    /\ LET e == PerformRequest(auth, fetches[f])
       IN  /\ auth' = e.a
           /\ fetches' = [fetches EXCEPT ![f] = e.r]
    /\ UNCHANGED <<probe, inputs, mode, built, call>>

\* the transport answers the signed request
Response(f) ==
    /\ fetches[f].pc = "sent"
    /\ Unobserved(f)
    /\ \E o \in ApiOutcomes :
         LET e == OnResponse(auth,
                             [fetches[f] EXCEPT !.responses = Append(@, o)],
                             o)
         IN  /\ auth' = e.a
             /\ fetches' = [fetches EXCEPT ![f] = e.r]
    /\ UNCHANGED <<probe, inputs, mode, built, call>>

\* the caller has looked at the result of a finished invocation (or given up
\* on a future that stays pending); its record is dropped
Return(f) ==
    /\ fetches[f].pc \in {"done", "hung"}
    /\ fetches' = [fetches EXCEPT ![f] = IdleFetch]
    /\ UNCHANGED <<probe, inputs, mode, built, auth, call>>

\* ------------------------------------------------------------------------
\* Construction
\* ------------------------------------------------------------------------

NoEnv ==
    [AWS_ACCESS_KEY_ID |-> None, AWS_SECRET_ACCESS_KEY |-> None,
     AWS_SECURITY_TOKEN |-> None, AWS_SESSION_TOKEN |-> None]

EnvVal(name) == Val("env", name, 0)

NoFile == [exists |-> FALSE, sections |-> {}, kv |-> {}]

FileVal(section, key) == Val(section, key, 0)

\* a shared credentials file with the given sections, each key of `keys`
\* set in each section of `full`
CredentialsFile(sections, full, keys) ==
    [exists |-> TRUE, sections |-> sections,
     kv |-> {<<s, k, FileVal(s, k)>> : s \in full, k \in keys}]

ArgVal(name) == Val("arg", name, 0)

\* the construction inputs the executor is explored with
FetchInputs ==
    [access_key : {None},
     secret_key : {None},
     env : {NoEnv},
     file : {NoFile},
     profile : {"default"}]
    \cup
    [access_key : {ArgVal("access_key")},
     secret_key : {ArgVal("secret_key")},
     env : {NoEnv},
     file : {NoFile},
     profile : {"default"}]
    \cup
    [access_key : {None},
     secret_key : {None},
     env : {[NoEnv EXCEPT !.AWS_ACCESS_KEY_ID = EnvVal("AWS_ACCESS_KEY_ID"),
                          !.AWS_SECRET_ACCESS_KEY =
                              EnvVal("AWS_SECRET_ACCESS_KEY")],
            [NoEnv EXCEPT !.AWS_ACCESS_KEY_ID = EnvVal("AWS_ACCESS_KEY_ID"),
                          !.AWS_SECRET_ACCESS_KEY =
                              EnvVal("AWS_SECRET_ACCESS_KEY"),
                          !.AWS_SESSION_TOKEN = EnvVal("AWS_SESSION_TOKEN")]},
     file : {NoFile},
     profile : {"default"}]
    \cup
    [access_key : {None},
     secret_key : {None},
     env : {NoEnv},
     file : {CredentialsFile({"default"}, {}, {}),
             CredentialsFile({"default"}, {"default"},
                             {"aws_access_key_id", "aws_secret_access_key"})},
     profile : {"default"}]

\* the construction inputs the provider alone is explored with
ProviderInputs ==
    [access_key : {None, ArgVal("access_key")},
     secret_key : {None, ArgVal("secret_key")},
     env : [AWS_ACCESS_KEY_ID : {None, EnvVal("AWS_ACCESS_KEY_ID")},
            AWS_SECRET_ACCESS_KEY : {None, EnvVal("AWS_SECRET_ACCESS_KEY")},
            AWS_SECURITY_TOKEN : {None},
            AWS_SESSION_TOKEN : {None, EnvVal("AWS_SESSION_TOKEN")}],
     file : {NoFile,
             CredentialsFile({"default"}, {}, {}),
             CredentialsFile({"default"}, {"default"},
                             {"aws_access_key_id", "aws_secret_access_key"}),
             CredentialsFile({"default"}, {"default"},
                             {"aws_access_key_id"}),
             CredentialsFile({"default", "foo"}, {"default", "foo"},
                             {"aws_access_key_id", "aws_secret_access_key",
                              "aws_session_token"}),
             CredentialsFile({"default", "foo"}, {"default"},
                             {"aws_access_key_id", "aws_secret_access_key"})},
     profile : {"default", "foo"}]

\* a direct call of a provider method: which, where it stands (none, role,
\* creds, returned, raised, hung), what it raised, the provider before it,
\* the metadata GETs it issued and the failure of a GET, if one failed
\* no metadata GET of the call has failed
NoMetaError == [kind |-> "none", code |-> 0, step |-> "none"]

\* the metadata GET of `step` (role, creds) failed with o
MetaError(o, step) == [kind |-> o.kind, code |-> o.code, step |-> step]

Call(op, pc, raised, code, before, gets) ==
    [op |-> op, pc |-> pc, raised |-> raised, code |-> code,
     before |-> before, gets |-> gets, error |-> NoMetaError]

Modes == {"sync", "async"}

\* no function has been called directly
NoProbe == [op |-> "none", input |-> <<>>, result |-> <<>>]

\* the client and its provider after construction
Init ==
    /\ inputs \in FetchInputs
    /\ mode \in Modes
    /\ auth \in {ClientAuthorization(inputs, mode),
                 DirectAuthorization(inputs, mode)}
    /\ built = auth.raised
    /\ fetches = [f \in Fetches |-> IdleFetch]
    /\ call = Call("none", "none", "none", 0, auth, 0)
    /\ probe = NoProbe

Next ==
    \E f \in Fetches :
        \/ FetchCall(f)
        \/ RoleResponse(f)
        \/ CredentialsError(f)
        \/ CredentialsResponse(f)
        \/ Refreshed(f)
        \/ Response(f)
        \/ Return(f)

Spec == Init /\ [][Next]_vars

\* ------------------------------------------------------------------------
\* The provider alone: direct calls of its methods, one after the other
\* ------------------------------------------------------------------------

CallIdle == built = "none" /\ call.pc \notin {"role", "creds"}

\* auth.reset()
CallReset ==
    /\ CallIdle
    /\ auth' = Reset(auth)
    /\ call' = Call("reset", "returned", "none", 0, auth, 0)
    /\ UNCHANGED <<probe, inputs, mode, built, fetches>>

\* auth._assign_credentials(data)
CallAssign ==
    /\ CallIdle
    /\ \E d \in CredentialsData :
         LET b == AssignCredentials(auth, d)
         IN  /\ auth' = [b EXCEPT !.raised = "none"]
             /\ call' = Call("assign",
                             IF b.raised = "none" THEN "returned"
                             ELSE "raised",
                             b.raised, 0, auth, 0)
    /\ UNCHANGED <<probe, inputs, mode, built, fetches>>

\* auth.refresh() up to its first GET
CallRefresh ==
    /\ CallIdle
    /\ LET s == RefreshStart(auth)
       IN  /\ auth' = s.a
           /\ call' = IF s.to = "raise"
                      THEN Call("refresh", "raised", s.exc, 0, auth, 0)
                      ELSE IF s.to = "resolved"
                      THEN Call("refresh", "returned", "none", 0, auth, 0)
                      ELSE Call("refresh", "role", "none", 0, auth, 1)
    /\ UNCHANGED <<probe, inputs, mode, built, fetches>>

\* an on_role that issues the role-credentials GET whatever the role-name
\* GET answered
OnRoleIssuesAnyway(c, a, o) ==
    [c EXCEPT !.pc = "creds",
              !.gets = @ + 1,
              !.error = IF o.kind = "ok" THEN @ ELSE MetaError(o, "role")]

\* on_role of _fetch_credentials_async (and `role = self._get_role()` of
\* _fetch_credentials): the role-credentials GET is issued with the role
\* name the first GET returned; a failed first GET ends the refresh
OnRole(c, a, o) ==
    IF o.kind = "ok"
    THEN [c EXCEPT !.pc = "creds", !.gets = @ + 1]
    ELSE [c EXCEPT !.pc = "raised",
                   !.raised = RefreshException(a, o).kind,
                   !.code = RefreshException(a, o).code,
                   !.error = MetaError(o, "role")]

\* the role-name GET of a direct refresh() completes
CallRoleResponse ==
    /\ call.pc = "role"
    /\ \E o \in {MetaOk} \cup MetaErrors : call' = OnRole(call, auth, o)
    /\ UNCHANGED <<probe, inputs, mode, built, auth, fetches>>

\* the role-credentials GET of a direct refresh() fails
CallCredentialsError ==
    /\ call.pc = "creds"
    /\ \E o \in MetaErrors :
         call' = [call EXCEPT !.pc = "raised",
                              !.raised = RefreshException(auth, o).kind,
                              !.code = RefreshException(auth, o).code,
                              !.error = MetaError(o, "creds")]
    /\ UNCHANGED <<probe, inputs, mode, built, auth, fetches>>

\* the role-credentials GET of a direct refresh() answers
CallCredentialsResponse ==
    /\ call.pc = "creds"
    /\ \E d \in CredentialsData :
         LET b == AssignCredentials(auth, d)
         IN  /\ auth' = [b EXCEPT !.raised = "none"]
             /\ call' = IF b.raised = "none"
                        THEN [call EXCEPT !.pc = "returned"]
                        ELSE [call EXCEPT !.pc = IF auth.is_async THEN "hung"
                                                 ELSE "raised",
                                          !.raised = b.raised]
    /\ UNCHANGED <<probe, inputs, mode, built, fetches>>

InitProvider ==
    /\ inputs \in ProviderInputs
    /\ mode \in Modes
    /\ auth \in {ClientAuthorization(inputs, mode),
                 DirectAuthorization(inputs, mode)}
    /\ built = auth.raised
    /\ fetches = [f \in Fetches |-> IdleFetch]
    /\ call = Call("none", "none", "none", 0, auth, 0)
    /\ probe = NoProbe

NextProvider ==
    \/ CallReset
    \/ CallAssign
    \/ CallRefresh
    \/ CallRoleResponse
    \/ CallCredentialsError
    \/ CallCredentialsResponse

SpecProvider == InitProvider /\ [][NextProvider]_vars

\* ------------------------------------------------------------------------
\* Region resolution (get_region) and direct calls of the classifier
\* ------------------------------------------------------------------------

\* DEFAULT_REGION = 'us-east-1'
DEFAULT_REGION == Val("str", "us-east-1", 0)

\* 'profile {0}'.format(profile)
ProfileKey(profile) ==
    IF profile = "foo" THEN "profile foo" ELSE "profile default"

\* the region key of `section` of a parsed config file
RegionVal(section) == Val(section, "region", 0)

\* a config file is [state, sections, region]: state is "missing",
\* "malformed" or "ok"; region is the set of sections with a region key
MissingConfig == [state |-> "missing", sections |-> {}, region |-> {}]

MalformedConfig == [state |-> "malformed", sections |-> {}, region |-> {}]

SectionNames == {"profile foo", "default", "other"}

ConfigFiles ==
    {MissingConfig, MalformedConfig}
    \cup {[state |-> "ok", sections |-> S, region |-> R] :
             <<S, R>> \in {x \in (SUBSET SectionNames) \X (SUBSET SectionNames) :
                              x[2] \subseteq x[1]}}

\* what _request_region_from_instance does: it returns the region of the
\* identity document, or raises a socket error (OSError), or cannot decode
\* the answer (ValueError)
RegionMetaOutcomes == {"ok", "OSError", "ValueError"}

RegionInputs ==
    [env : {None, EmptyStr, Val("env", "AWS_DEFAULT_REGION", 0)},
     file : ConfigFiles,
     profile : {"default", "foo"},
     metadata : RegionMetaOutcomes]

\* the result of get_region: what it raised, the region it returned and
\* whether it asked the instance metadata API
RegionResult(raised, region, asked) ==
    [raised |-> raised, region |-> region, asked |-> asked]

\* a lookup that prefers the default section to the profile's
RegionFromFileDefaultFirst(file, profile) ==
    IF "default" \in file.region THEN RegionVal("default")
    ELSE IF ProfileKey(profile) \in file.region
    THEN RegionVal(ProfileKey(profile))
    ELSE DEFAULT_REGION

\* `config.get(key, {}).get('region') or config.get('default',
\* {}).get('region') or DEFAULT_REGION`
RegionFromFile(file, profile) ==
    IF ProfileKey(profile) \in file.region
    THEN RegionVal(ProfileKey(profile))
    ELSE IF "default" \in file.region THEN RegionVal("default")
    ELSE DEFAULT_REGION

\* a fallback that answers the default region when the metadata request
\* fails
RegionFromInstanceOrDefault(metadata) ==
    IF metadata = "ok"
    THEN RegionResult("none", Val("metadata", "region", 0), TRUE)
    ELSE IF metadata = "OSError"
    THEN RegionResult("none", DEFAULT_REGION, TRUE)
    ELSE RegionResult(metadata, None, TRUE)

\* the handler of ConfigNotFound in get_region: the region of the instance,
\* ConfigNotFound again if the request fails with a socket or OS error
RegionFromInstance(metadata) ==
    IF metadata = "ok"
    THEN RegionResult("none", Val("metadata", "region", 0), TRUE)
    ELSE IF metadata = "OSError"
    THEN RegionResult("ConfigNotFound", None, TRUE)
    ELSE RegionResult(metadata, None, TRUE)

\* a test that wants the section of the profile itself
MissingProfileStrict(file, profile) ==
    ProfileKey(profile) \notin file.sections

\* `key not in config and 'default' not in config`
MissingProfile(file, profile) ==
    ProfileKey(profile) \notin file.sections /\ "default" \notin file.sections

\* get_region(profile)
GetRegion(in) ==
    IF Truthy(in.env) THEN RegionResult("none", in.env, FALSE)
    ELSE IF in.file.state = "missing" THEN RegionFromInstance(in.metadata)
    ELSE IF in.file.state = "malformed"
    THEN RegionResult("ConfigParserError", None, FALSE)
    ELSE IF MissingProfile(in.file, in.profile)
    THEN RegionResult("NoProfileError", None, FALSE)
    ELSE RegionResult("none", RegionFromFile(in.file, in.profile), FALSE)

\* the __type values and the XML codes the classifier is called with
AwzTypes ==
    {<<"MissingAuthenticationTokenException">>,
     <<"com.amazonaws.dynamodb.v20120810",
       "MissingAuthenticationTokenException">>,
     <<"com.amazon.coral.service", "ExpiredTokenException">>,
     <<"com.amazonaws", "dynamodb.v20120810", "ExpiredTokenException">>,
     <<"ResourceNotFoundException">>,
     <<"AuthFailure">>,
     <<"ExpiredToken">>}

XmlCodes ==
    {<<"ExpiredToken">>, <<"InvalidAction">>, <<"AuthFailure">>}

XmlFields == {"Message", "RequestId", "x-amzn-RequestId", "Resource", "HostId"}

\* the failed responses _process_error is called with: status code, whether
\* the content type is one of _AWZ_CONTENT_TYPES, body
ClassifierInputs ==
    {HTTPError(c, z, b) :
        c \in {400, 403, 503},
        z \in BOOLEAN,
        b \in {BodyWith("awz", ty, f) :
                  ty \in AwzTypes, f \in {{}, {"message"}}}
              \cup {BodyWith("xml", x, f) :
                       x \in XmlCodes, f \in SUBSET XmlFields}
              \cup {BodyWith(s, <<>>, {}) :
                       s \in {"json", "text", "xmlother", "xmlempty"}}}
    \cup {Timeout599}

\* get_region(profile) is called
GetRegionCall ==
    /\ \E in \in RegionInputs :
         probe' = [op |-> "get_region", input |-> in,
                   result |-> GetRegion(in)]
    /\ UNCHANGED <<inputs, mode, built, auth, fetches, call>>

\* client._process_error(error) is called
ProcessErrorCall ==
    /\ \E e \in ClassifierInputs :
         probe' = [op |-> "_process_error", input |-> e,
                   result |-> ProcessError(e)]
    /\ UNCHANGED <<inputs, mode, built, auth, fetches, call>>

\* a client with explicit credentials, on which the functions are called
InitFunctions ==
    /\ inputs = [access_key |-> ArgVal("access_key"),
                 secret_key |-> ArgVal("secret_key"),
                 env |-> NoEnv, file |-> NoFile, profile |-> "default"]
    /\ mode = "sync"
    /\ auth = ClientAuthorization(inputs, mode)
    /\ built = auth.raised
    /\ fetches = [f \in Fetches |-> IdleFetch]
    /\ call = Call("none", "none", "none", 0, auth, 0)
    /\ probe = NoProbe

NextFunctions ==
    \/ GetRegionCall
    \/ ProcessErrorCall

SpecFunctions == InitFunctions /\ [][NextFunctions]_vars

\* ------------------------------------------------------------------------
\* XML error documents (_parse_xml_error over the dict of txml.loads)
\* ------------------------------------------------------------------------

\* What _xml_to_dict makes of an element: None for an element without
\* children, attributes and text, the stripped text for an element with
\* text only, a dict of its children by tag otherwise
XmlNone == [kind |-> "none", items |-> <<>>, text |-> ""]

XmlText(s) == [kind |-> "text", items |-> <<>>, text |-> s]

XmlDict(items) == [kind |-> "dict", items |-> items, text |-> ""]

\* <Error><Code>..</Code><Message>..</Message></Error>
ErrorElement == XmlDict([t \in {"Code", "Message"} |-> XmlText(t)])

\* the Errors elements of the documents
ErrorsElements ==
    {XmlDict([t \in {"Error"} |-> ErrorElement]),
     XmlDict([t \in {"Message"} |-> XmlText(t)]),
     XmlNone}

ChildTags == {"Error", "Errors", "Message", "RequestID", "Other"}

XmlContents ==
    {XmlNone, XmlText("error")}
    \cup {XmlDict([t \in S |-> IF t = "Error" THEN ErrorElement
                               ELSE IF t = "Errors" THEN e
                               ELSE XmlText(t)]) :
             S \in SUBSET ChildTags, e \in ErrorsElements}

\* the documents _parse_xml_error is called with: root tag and content
XmlDocs ==
    {[tag |-> r, content |-> c] :
        r \in {"Errors", "Response", "MissingAuthenticationTokenException"},
        c \in XmlContents}
    \cup {[tag |-> "Error", content |-> c] : c \in {ErrorElement, XmlNone}}

\* `tag in c` for a dict or a text c; the texts of the documents contain no
\* tag name
XmlIn(tag, c) == c.kind = "dict" /\ tag \in DOMAIN c.items

\* the result of _parse_xml_error: what it raised, the error it returned
XmlResult(raised, error) == [raised |-> raised, error |-> error]

\* AWSClient._parse_xml_error after txml.loads: payload is {doc.tag:
\* doc.content}.  `in` on None and item assignment on None raise TypeError.
ParseXmlPayload(doc) ==
    LET c == doc.content
    IN  IF doc.tag = "Error" THEN XmlResult("none", c)
        ELSE IF doc.tag = "Errors" /\ c.kind = "none"
        THEN XmlResult("TypeError", XmlNone)
        ELSE IF doc.tag = "Errors" /\ XmlIn("Error", c)
        THEN XmlResult("none", c.items["Error"])
        ELSE IF doc.tag = "Response" /\ c.kind = "none"
        THEN XmlResult("TypeError", XmlNone)
        ELSE IF doc.tag = "Response" /\ XmlIn("Errors", c)
                /\ c.items["Errors"].kind = "none"
        THEN XmlResult("TypeError", XmlNone)
        ELSE IF doc.tag = "Response" /\ XmlIn("Errors", c)
                /\ XmlIn("Error", c.items["Errors"])
        THEN LET e == c.items["Errors"].items["Error"]
                 id == IF XmlIn("RequestID", c) THEN c.items["RequestID"]
                       ELSE XmlNone
             IN  IF e.kind # "dict" THEN XmlResult("TypeError", XmlNone)
                 ELSE XmlResult("none",
                          XmlDict([t \in DOMAIN e.items \cup {"RequestId"} |->
                                      IF t = "RequestId" THEN id
                                      ELSE e.items[t]]))
        ELSE IF c.kind = "none" THEN XmlResult("TypeError", XmlNone)
        ELSE IF XmlIn("Message", c)
        THEN XmlResult("none",
                 XmlDict([t \in {"Code", "Message"} |->
                             IF t = "Code" THEN XmlText(doc.tag)
                             ELSE c.items["Message"]]))
        ELSE XmlResult("ValueError", XmlNone)

\* client._parse_xml_error(content) is called
ParseXmlErrorCall ==
    /\ \E doc \in XmlDocs :
         probe' = [op |-> "_parse_xml_error", input |-> doc,
                   result |-> ParseXmlPayload(doc)]
    /\ UNCHANGED <<inputs, mode, built, auth, fetches, call>>

NextXml == ParseXmlErrorCall

SpecXml == InitFunctions /\ [][NextXml]_vars

\* ------------------------------------------------------------------------
\* Request signing (_create_request, _signed_request)
\* ------------------------------------------------------------------------

\* A header name is its lower-case spelling and whether it is written with
\* upper-case letters ('X-Foo') or without ('x-foo')
HeaderName(l, cased) == [l |-> l, cased |-> cased]

\* str.lower()
Lower(name) == [name EXCEPT !.cased = FALSE]

\* A dict is the sequence of its <<key, value>> items in insertion order,
\* no key twice
DictKeys(d) == {d[i][1] : i \in DOMAIN d}

\* d[k]
DictGet(d, k) == d[CHOOSE i \in DOMAIN d : d[i][1] = k][2]

\* d[k] = v: a key the dict has keeps its place
DictSet(d, k, v) ==
    IF k \in DictKeys(d)
    THEN [d EXCEPT ![CHOOSE i \in DOMAIN d : d[i][1] = k] = <<k, v>>]
    ELSE Append(d, <<k, v>>)

\* d.setdefault(k, v)
DictSetDefault(d, k, v) == IF k \in DictKeys(d) THEN d ELSE Append(d, <<k, v>>)

\* d.update(items), and the dict built from items by a comprehension
RECURSIVE DictUpdate(_, _)
DictUpdate(d, items) ==
    IF items = <<>> THEN d
    ELSE DictUpdate(DictSet(d, Head(items)[1], Head(items)[2]), Tail(items))

\* the lower-case header names the signer meets, in ASCII order
AsciiOrder ==
    <<"authorization", "content-length", "date", "host",
      "x-amz-content-sha256", "x-amz-security-token", "x-foo">>

\* sorted(tmp.keys()), the keys lower-case names
Sorted(keys) ==
    LET Among(l) == HeaderName(l, FALSE) \in keys
    IN  SelectSeq(AsciiOrder, Among)

\* value.strip()
Strip(v) == IF v.src = "padded" THEN Val("hdr", v.fld, v.n) ELSE v

\* AWSClient._signed_headers(headers): the signed headers list and the
\* canonical headers string, a line <<name, value>> per key of tmp
SignedHeaders(headers) ==
    LET tmp == DictUpdate(<<>>, [i \in DOMAIN headers |->
                                    <<Lower(headers[i][1]), headers[i][2]>>])
        ks == Sorted(DictKeys(tmp))
    IN  [signed_headers |-> ks,
         headers_string |->
             [i \in DOMAIN ks |->
                 <<ks[i], DictGet(tmp, HeaderName(ks[i], FALSE))>>]]

\* the query argument names of the caller, in sorted order
QueryOrder == <<"Action", "Version">>

\* AWSClient._quote(value)
Quote(value) == [quoted |-> value]

\* a _query_string that keeps the order of the dict
QueryStringUnsorted(query_args) ==
    [i \in DOMAIN query_args |->
        <<Quote(query_args[i][1]), Quote(query_args[i][2])>>]

\* AWSClient._query_string(query_args)
QueryString(query_args) ==
    LET Among(k) == k \in DictKeys(query_args)
        ks == SelectSeq(QueryOrder, Among)
    IN  [i \in DOMAIN ks |->
            <<Quote(ks[i]), Quote(DictGet(query_args, ks[i]))>>]

\* AWSClient._signed_request(method, path, query_args, headers, body) with
\* the credentials of provider a at time now, for a fixed method, path and
\* empty body: the headers dict it was given, updated in place, and the
\* query string of the URL.  A hash is the value it was computed from.
SignedRequest(a, now, query_args, headers) ==
    LET query_string == QueryString(query_args)
        amz_date == Val("strftime", "%Y%m%dT%H%M%SZ", now)
        date_stamp == Val("strftime", "%Y%m%d", now)
        payload_hash == Val("sha256", "body", 0)
        h1 == DictUpdate(headers,
                  <<<<HeaderName("content-length", TRUE), Val("str", "0", 0)>>,
                    <<HeaderName("date", TRUE), amz_date>>,
                    <<HeaderName("x-amz-content-sha256", TRUE),
                      payload_hash>>>>)
        h2 == DictSetDefault(h1, HeaderName("host", TRUE),
                             Val("str", "host", 0))
        h3 == IF SecurityTokenHeader(a) # None
              THEN DictSet(h2, HeaderName("x-amz-security-token", TRUE),
                           SecurityTokenHeader(a))
              ELSE h2
        sh == SignedHeaders(h3)
        request == [query_string |-> query_string,
                    headers_string |-> sh.headers_string,
                    signed_headers |-> sh.signed_headers,
                    payload_hash |-> payload_hash]
        authorization ==
            [src |-> "Authorization", fld |-> "", n |-> 0,
             access_key |-> a.access_key,
             date_stamp |-> date_stamp,
             signed_headers |-> sh.signed_headers,
             signature |-> [secret_key |-> a.secret_key,
                            amz_date |-> amz_date,
                            request |-> request]]
    IN  [headers |-> DictSet(h3, HeaderName("authorization", TRUE),
                             authorization),
         query_string |-> query_string]

\* a _create_request that signs the caller's dict itself, not a copy
CreateRequestInPlace(a, now, query_args, headers) ==
    LET s == SignedRequest(a, now, query_args, headers)
    IN  [request |-> s, headers |-> s.headers]

\* AWSClient._create_request(method, path, query_args, headers, body):
\* dict(headers) is signed; `headers` is the caller's dict after the call
CreateRequest(a, now, query_args, headers) ==
    [request |-> SignedRequest(a, now, query_args, headers),
     headers |-> headers]

\* the header dicts and query dicts fetch is called with
CallerNames ==
    {HeaderName("x-foo", TRUE), HeaderName("x-foo", FALSE),
     HeaderName("host", FALSE), HeaderName("date", TRUE)}

\* a header value without and with surrounding whitespace
CallerValues == {Val("hdr", "a", 0), Val("padded", "b", 0)}

CallerHeaders ==
    {<<>>}
    \cup {<<<<k, v>>>> : k \in CallerNames, v \in CallerValues}
    \cup {<<<<k[1], v[1]>>, <<k[2], v[2]>>>> :
             k \in {x \in CallerNames \X CallerNames : x[1] # x[2]},
             v \in CallerValues \X CallerValues}

CallerQueries ==
    {<<>>,
     <<<<"Action", "ListQueues">>, <<"Version", "2012-11-05">>>>,
     <<<<"Version", "2012-11-05">>, <<"Action", "ListQueues">>>>}

\* the arguments of a fetch whose attempts are signed: the caller's header
\* dict as it is now and as it was passed, the time and the number of
\* _create_request calls so far, the request the last one returned
Signing(query_args, headers) ==
    [op |-> "_create_request",
     input |-> [query_args |-> query_args, headers |-> headers,
                original |-> headers],
     result |-> <<>>, now |-> 0, attempts |-> 0]

\* _create_request is called for the next attempt of the fetch, at the time
\* of the last attempt or later
CreateRequestCall ==
    /\ built = "none"
    /\ probe.attempts < MaxAttempts
    /\ \E now \in {probe.now, probe.now + 1} :
         LET c == CreateRequest(auth, now, probe.input.query_args,
                                probe.input.headers)
         IN  probe' = [probe EXCEPT !.now = now,
                                    !.attempts = @ + 1,
                                    !.result = c.request,
                                    !.input.headers = c.headers]
    /\ UNCHANGED <<inputs, mode, built, auth, fetches, call>>

\* between two attempts (or before the first) the Dynamic provider is reset
\* and refreshed: reset() and the refresh() of the next fetch call
ResetAndRefresh ==
    /\ built = "none"
    /\ ~auth.local_credentials
    /\ \E d \in {x \in CredentialsData : x.keys = AllKeys} :
         auth' = [AssignCredentials(Reset(auth), d) EXCEPT !.raised = "none"]
    /\ UNCHANGED <<probe, inputs, mode, built, fetches, call>>

\* the clients whose requests are signed: Dynamic, static from arguments,
\* static from the environment with a session token
SigningInputs ==
    {[access_key |-> None, secret_key |-> None, env |-> NoEnv,
      file |-> NoFile, profile |-> "default"],
     [access_key |-> ArgVal("access_key"),
      secret_key |-> ArgVal("secret_key"), env |-> NoEnv,
      file |-> NoFile, profile |-> "default"],
     [access_key |-> None, secret_key |-> None,
      env |-> [NoEnv EXCEPT !.AWS_ACCESS_KEY_ID = EnvVal("AWS_ACCESS_KEY_ID"),
                            !.AWS_SECRET_ACCESS_KEY =
                                EnvVal("AWS_SECRET_ACCESS_KEY"),
                            !.AWS_SESSION_TOKEN = EnvVal("AWS_SESSION_TOKEN")],
      file |-> NoFile, profile |-> "default"]}

InitSigning ==
    /\ inputs \in SigningInputs
    /\ mode \in Modes
    /\ auth = DirectAuthorization(inputs, mode)
    /\ built = auth.raised
    /\ fetches = [f \in Fetches |-> IdleFetch]
    /\ call = Call("none", "none", "none", 0, auth, 0)
    /\ probe \in {Signing(q, h) : q \in CallerQueries, h \in CallerHeaders}

NextSigning ==
    \/ CreateRequestCall
    \/ ResetAndRefresh

SpecSigning == InitSigning /\ [][NextSigning]_vars

\* ------------------------------------------------------------------------
\* Properties of the executor
\* ------------------------------------------------------------------------

\* the answers _process_error classifies as refreshable
RefreshableAnswers == {ExpiredTokenXml, MissingTokenAwz}

\* the answers _process_error classifies with a code of neither refresh list
TerminalAnswers == {InvalidActionXml, ResourceNotFoundAwz}

\* the answers without an HTTP response
NoResponseAnswers == {SocketError, Timeout599}

\* the answers whose body is no error document the classifier knows
UnrecognisedAnswers == {SlowDownText, JsonNoTypeAwz, EmptyRootXml}

\* the code the service put into an answer
ExpectedCode(o) ==
    IF o = ExpiredTokenXml THEN <<"ExpiredToken">>
    ELSE IF o = MissingTokenAwz
    THEN <<"MissingAuthenticationTokenException">>
    ELSE IF o = InvalidActionXml THEN <<"InvalidAction">>
    ELSE IF o = ResourceNotFoundAwz THEN <<"ResourceNotFoundException">>
    ELSE <<>>

\* the provider as it was constructed was Dynamic
DynamicOrigin == ~call.before.local_credentials

\* C1: one fetch invocation hands at most two requests to the transport,
\* the first attempt and at most one retry, whatever the transport answers.
C1_AtMostTwoRequests ==
    \A f \in Fetches :
        fetches[f].sends <= 2 /\ Len(fetches[f].responses) <= 2

\* a fetch whose retry was answered with a refreshable error as well
C1_Witness ==
    \E f \in Fetches :
        /\ fetches[f].pc = "done"
        /\ fetches[f].sends = 2
        /\ Len(fetches[f].responses) = 2
        /\ fetches[f].responses[2] \in RefreshableAnswers

\* C2: with Dynamic credentials, a fetch whose first and second request are
\* both answered with a refreshable error has sent exactly two requests and
\* fails with the AWSError classified from the second answer.
C2_TwoRefreshableErrors ==
    \A f \in Fetches :
        LET r == fetches[f]
        IN  (/\ DynamicOrigin
             /\ Len(r.responses) = 2
             /\ r.responses[1] \in RefreshableAnswers
             /\ r.responses[2] \in RefreshableAnswers)
            => /\ r.pc = "done"
               /\ r.sends = 2
               /\ r.outcome.kind = "AWSError"
               /\ r.outcome.via \in {"raise", "future"}
               /\ r.outcome.type = ExpectedCode(r.responses[2])

C2_Witness ==
    \E f \in Fetches :
        /\ DynamicOrigin
        /\ fetches[f].responses = <<MissingTokenAwz, ExpiredTokenXml>>
        /\ fetches[f].outcome.kind = "AWSError"
        /\ fetches[f].outcome.type = <<"ExpiredToken">>

\* a Dynamic fetch answered with a refreshable error and then a 2xx
SuccessAfterRefresh(r) ==
    /\ DynamicOrigin
    /\ Len(r.responses) = 2
    /\ r.responses[1] \in RefreshableAnswers
    /\ r.responses[2] = Ok2xx

\* C3 as stated: a Dynamic fetch answered with a refreshable error and then
\* a 2xx returns the 2xx, having called reset() once and refresh() once.
C3_Original ==
    \A f \in Fetches :
        LET r == fetches[f]
        IN  SuccessAfterRefresh(r)
            => /\ r.pc = "done"
               /\ r.outcome.kind = "response"
               /\ r.resets = 1
               /\ r.refreshes = 1

\* C3: a Dynamic fetch answered with a refreshable error and then a 2xx
\* returns the 2xx, having called reset() once; refresh() was called once if
\* the provider held credentials when the fetch began, and twice (at entry
\* and before the retry) if it held none.
C3_SuccessAfterRefresh ==
    \A f \in Fetches :
        LET r == fetches[f]
        IN  SuccessAfterRefresh(r)
            => /\ r.pc = "done"
               /\ r.outcome.kind = "response"
               /\ r.outcome.code = 200
               /\ r.resets = 1
               /\ r.refreshes = IF r.entry_needs THEN 2 ELSE 1

C3_Witness ==
    \E f \in Fetches :
        /\ SuccessAfterRefresh(fetches[f])
        /\ ~fetches[f].entry_needs
        /\ fetches[f].refreshes = 1
        /\ fetches[f].outcome.kind = "response"

\* C4: with static credentials a refreshable answer causes neither reset()
\* nor a retry: one request was sent, the provider is as it was constructed,
\* and the classified AWSError is raised.
C4_StaticNeverReset ==
    \A f \in Fetches :
        LET r == fetches[f]
        IN  (/\ ~DynamicOrigin
             /\ Len(r.responses) >= 1
             /\ r.responses[1] \in RefreshableAnswers)
            => /\ r.pc = "done"
               /\ r.sends = 1
               /\ r.resets = 0
               /\ r.outcome.kind = "AWSError"
               /\ r.outcome.type = ExpectedCode(r.responses[1])
               /\ auth = call.before

C4_Witness ==
    \E f \in Fetches :
        /\ ~DynamicOrigin
        /\ fetches[f].responses = <<ExpiredTokenXml>>
        /\ fetches[f].outcome.kind = "AWSError"

\* C5: the step that receives an answer classified with a code outside the
\* refresh lists ends the fetch: it sends nothing more, calls neither reset()
\* nor refresh(), leaves the provider as it is and raises the classified
\* AWSError.
C5_TerminalCodeNotRetried ==
    [][\A f \in Fetches :
          (/\ Len(fetches'[f].responses) = Len(fetches[f].responses) + 1
           /\ fetches'[f].responses[Len(fetches'[f].responses)]
                  \in TerminalAnswers)
          => /\ fetches'[f].pc = "done"
             /\ fetches'[f].outcome.kind = "AWSError"
             /\ fetches'[f].outcome.type
                    = ExpectedCode(
                        fetches'[f].responses[Len(fetches'[f].responses)])
             /\ fetches'[f].sends = fetches[f].sends
             /\ fetches'[f].resets = fetches[f].resets
             /\ fetches'[f].refreshes = fetches[f].refreshes
             /\ auth' = auth]_vars

C5_Witness ==
    \E f \in Fetches :
        /\ DynamicOrigin
        /\ fetches[f].responses = <<ResourceNotFoundAwz>>
        /\ fetches[f].outcome.kind = "AWSError"
        /\ fetches[f].resets = 0

\* C6: an answer without an HTTP response (socket error, or the pseudo-code
\* 599) reaches the caller as a transport error, unclassified, without a
\* retry and without reset().
C6_TransportErrorSurfaced ==
    \A f \in Fetches :
        LET r == fetches[f]
        IN  (/\ Len(r.responses) >= 1
             /\ r.responses[Len(r.responses)] \in NoResponseAnswers)
            => /\ r.pc = "done"
               /\ r.outcome.kind \in {"RequestException", "HTTPError"}
               /\ r.outcome.via \in {"raise", "future"}
               /\ r.sends = Len(r.responses)
               /\ r.resets = Len(r.responses) - 1

\* C7: a fetch that began in need of credentials and whose refresh() failed
\* ends with a credentials error, and has signed and sent no request.
C7_RefreshFailureAborts ==
    \A f \in Fetches :
        LET r == fetches[f]
        IN  (/\ r.entry_needs
             /\ r.pc \in {"done", "hung"}
             /\ Len(r.responses) = 0)
            => /\ r.pc = "done"
               /\ r.outcome.kind = "NoCredentialsError"
               /\ r.sends = 0

\* C8: each attempt of a fetch calls refresh() exactly when
\* needs_credentials() is true as the attempt begins, and the request of the
\* attempt is not sent before that refresh has completed; a fetch that began
\* without credentials and got a 2xx on its first request called refresh()
\* once and the transport once.
C8_RefreshBeforeSigning ==
    \A f \in Fetches :
        LET r == fetches[f]
        IN  r.pc # "idle"
            => /\ r.refreshes = (IF r.entry_needs THEN 1 ELSE 0)
                                 + (IF r.recursed THEN 1 ELSE 0)
               /\ r.pc \in {"role", "creds", "refreshed"}
                      => r.sends = (IF r.recursed THEN 1 ELSE 0)
               /\ (r.entry_needs /\ r.responses = <<Ok2xx>>)
                      => r.refreshes = 1 /\ r.sends = 1

C8_Witness ==
    \E f \in Fetches :
        /\ fetches[f].entry_needs
        /\ fetches[f].pc = "done"
        /\ fetches[f].responses = <<Ok2xx>>
        /\ fetches[f].refreshes = 1
        /\ fetches[f].sends = 1

\* ------------------------------------------------------------------------
\* Properties of the provider
\* ------------------------------------------------------------------------

\* C9: reset() on a provider whose credentials are static is rejected with
\* LocalCredentialsError and leaves the four credential fields as they were.
C9_ResetRejectedForStatic ==
    (call.op = "reset" /\ call.before.local_credentials)
    => /\ call.raised = "LocalCredentialsError"
       /\ auth.access_key = call.before.access_key
       /\ auth.secret_key = call.before.secret_key
       /\ auth.security_token = call.before.security_token
       /\ auth.expiration = call.before.expiration

\* C10: reset() on a Dynamic provider leaves access_key, secret_key,
\* security_token and expiration None, whatever was assigned before, and
\* needs_credentials() is true after it.
C10_ResetClears ==
    (call.op = "reset" /\ ~call.before.local_credentials)
    => /\ auth.access_key = None
       /\ auth.secret_key = None
       /\ auth.security_token = None
       /\ auth.expiration = None
       /\ NeedsCredentials(auth)

\* a reset of a Dynamic provider that held a complete set of credentials
\* from the metadata API
C10_Witness ==
    /\ call.op = "reset"
    /\ ~call.before.local_credentials
    /\ call.before.access_key.src = "metadata"
    /\ call.before.secret_key.src = "metadata"
    /\ call.before.security_token.src = "metadata"
    /\ call.before.expiration.src = "metadata"
    /\ auth.access_key = None

\* C11: needs_credentials() is true exactly when the origin is Dynamic and
\* access_key is empty, in every state of a constructed provider.
C11_NeedsIffDynamicAndEmpty ==
    built = "none"
    => (NeedsCredentials(auth)
        <=> (~auth.local_credentials /\ ~Truthy(auth.access_key)))

\* C12: no step changes local_credentials: the origin determined by the
\* constructor stays what it was, the environment and the files being fixed.
C12_OriginNeverChanges ==
    [][auth'.local_credentials = auth.local_credentials]_vars

\* C13: refresh() on a provider whose origin is not Dynamic returns
\* normally, issues no metadata GET and leaves the provider as it was.
C13_StaticRefreshNoOp ==
    (call.op = "refresh" /\ call.before.local_credentials)
    => /\ call.pc = "returned"
       /\ call.gets = 0
       /\ auth.access_key = call.before.access_key
       /\ auth.secret_key = call.before.secret_key
       /\ auth.security_token = call.before.security_token
       /\ auth.expiration = call.before.expiration
       /\ auth.local_credentials = call.before.local_credentials

\* C14: refresh() on a Dynamic provider is atomic: once it has returned all
\* four fields hold values of one metadata answer, and once it has failed
\* none of the four fields differs from its value before the call.
C14_RefreshAtomic ==
    (call.op = "refresh" /\ ~call.before.local_credentials)
    => /\ call.pc = "returned"
          => \E n \in 1 .. MaxIssued :
                /\ auth.access_key = Val("metadata", "AccessKeyId", n)
                /\ auth.secret_key = Val("metadata", "SecretAccessKey", n)
                /\ auth.expiration = Val("metadata", "Expiration", n)
                /\ auth.security_token = Val("metadata", "Token", n)
       /\ call.pc \in {"raised", "hung"}
          => /\ auth.access_key = call.before.access_key
             /\ auth.secret_key = call.before.secret_key
             /\ auth.expiration = call.before.expiration
             /\ auth.security_token = call.before.security_token

\* C15: refresh() on a Dynamic provider one of whose metadata GETs failed
\* with a network error (OSError) or a timeout (599) has raised
\* NoCredentialsError, in the blocking and in the non-blocking mode.
C15_NetworkFailureIsNoCredentials ==
    (/\ call.op = "refresh"
     /\ ~call.before.local_credentials
     /\ call.error.step \in {"role", "creds"}
     /\ (call.error.kind = "OSError" \/ call.error.code = 599))
    => /\ call.pc = "raised"
       /\ call.raised = "NoCredentialsError"

\* C16: in the non-blocking mode the two metadata GETs of one refresh() are
\* issued one after the other: while the role-name GET is awaited it is the
\* only one issued, the role-credentials GET is issued only after the
\* role-name GET has answered without error, and a refresh whose role-name
\* GET failed has ended having issued that one GET only.
C16_MetadataGetsSequential ==
    (call.op = "refresh" /\ auth.is_async)
    => /\ call.gets <= 2
       /\ call.pc = "role" => call.gets = 1 /\ call.error = NoMetaError
       /\ call.pc = "creds" => call.gets = 2 /\ call.error = NoMetaError
       /\ call.gets = 2 => call.error.step # "role"
       /\ call.error.step = "role" => call.gets = 1 /\ call.pc = "raised"

\* a non-blocking refresh whose role-name GET failed
C16_Witness ==
    /\ call.op = "refresh"
    /\ auth.is_async
    /\ call.error.step = "role"
    /\ call.pc = "raised"
    /\ call.gets = 1

\* C17: a non-blocking fetch that begins while another fetch of the same
\* client awaits its role-name GET, the provider still needing credentials,
\* starts a refresh of its own: it issues its own role-name GET and leaves
\* the other fetch as it is.
C17_RefreshNotSingleFlight ==
    [][\A f \in Fetches :
          (/\ mode = "async"
           /\ fetches[f].pc = "idle"
           /\ fetches'[f].pc # "idle"
           /\ NeedsCredentials(auth)
           /\ \E g \in Fetches \ {f} : fetches[g].pc = "role")
          => /\ fetches'[f].pc = "role"
             /\ fetches'[f].refreshes = 1
             /\ fetches'[f].sends = 0
             /\ \A g \in Fetches \ {f} : fetches'[g] = fetches[g]]_vars

\* two fetches of one client, each awaiting the role-name GET of its own
\* refresh
C17_Witness ==
    /\ mode = "async"
    /\ \E f \in Fetches : \E g \in Fetches \ {f} :
         /\ fetches[f].pc = "role" /\ fetches[f].refreshes = 1
         /\ fetches[g].pc = "role" /\ fetches[g].refreshes = 1
         /\ fetches[f].entry_needs /\ fetches[g].entry_needs

\* C18: the constructor takes the key pair of the first source that supplies
\* one, in the order explicit arguments, environment, the profile's section
\* of the credentials file, its default section; with no such source the
\* origin is Dynamic.
C18_Precedence ==
    (built = "none" /\ call.op = "none")
    => LET explicit == Truthy(inputs.access_key) /\ Truthy(inputs.secret_key)
           env == /\ Truthy(inputs.env.AWS_ACCESS_KEY_ID)
                  /\ Truthy(inputs.env.AWS_SECRET_ACCESS_KEY)
           ak(s) == ConfigGet(inputs.file, s, "aws_access_key_id", None)
           sk(s) == ConfigGet(inputs.file, s, "aws_secret_access_key", None)
           section(s) == /\ inputs.file.exists
                         /\ s \in inputs.file.sections
                         /\ Truthy(ak(s))
                         /\ Truthy(sk(s))
           uses(a, s) == /\ auth.local_credentials
                         /\ auth.access_key = a
                         /\ auth.secret_key = s
       IN  IF explicit THEN uses(inputs.access_key, inputs.secret_key)
           ELSE IF env
           THEN uses(inputs.env.AWS_ACCESS_KEY_ID,
                     inputs.env.AWS_SECRET_ACCESS_KEY)
           ELSE IF section(inputs.profile)
           THEN uses(ak(inputs.profile), sk(inputs.profile))
           ELSE IF section("default")
           THEN uses(ak("default"), sk("default"))
           ELSE ~auth.local_credentials

\* C19: the provider's access key is the value of AWS_ACCESS_KEY_ID only
\* together with the value of AWS_SECRET_ACCESS_KEY as its secret key.
C19_EnvironmentKeysTogether ==
    (built = "none" /\ auth.access_key = EnvVal("AWS_ACCESS_KEY_ID"))
    => auth.secret_key = EnvVal("AWS_SECRET_ACCESS_KEY")

\* C20: access_key and secret_key of a constructed provider are both present
\* or both absent, in every state.
C20_KeysBothOrNeither ==
    built = "none" => (Truthy(auth.access_key) <=> Truthy(auth.secret_key))

C23_MissingFileAndMetadata ==
    (/\ probe.op = "get_region"
     /\ ~Truthy(probe.input.env)
     /\ probe.input.file.state = "missing"
     /\ probe.input.metadata = "OSError") =>
        /\ probe.result.raised = "ConfigNotFound"
        /\ probe.result.asked

\* get_region raised ConfigNotFound after the metadata request failed
C23_Witness ==
    /\ probe.op = "get_region"
    /\ probe.input.env = None
    /\ probe.input.file.state = "missing"
    /\ probe.input.metadata = "OSError"
    /\ probe.result = RegionResult("ConfigNotFound", None, TRUE)

\* C24 as stated: with no override, a config file without the section of the
\* profile fails with NoProfileError, whatever other sections it has.
C24_Original ==
    (/\ probe.op = "get_region"
     /\ ~Truthy(probe.input.env)
     /\ probe.input.file.state = "ok"
     /\ ProfileKey(probe.input.profile) \notin probe.input.file.sections) =>
        probe.result.raised = "NoProfileError"

\* C24: with no override, a config file without the section of the profile
\* fails with NoProfileError exactly when it has no default section either;
\* with a default section the region is that section's, else the built-in
\* default.
C24_NoProfileUnlessDefault ==
    LET in == probe.input
        file == in.file
    IN  (/\ probe.op = "get_region"
         /\ ~Truthy(in.env)
         /\ file.state = "ok"
         /\ ProfileKey(in.profile) \notin file.sections) =>
          IF "default" \in file.sections
          THEN probe.result =
                 RegionResult("none",
                              IF "default" \in file.region
                              THEN RegionVal("default") ELSE DEFAULT_REGION,
                              FALSE)
          ELSE probe.result = RegionResult("NoProfileError", None, FALSE)

\* get_region raised NoProfileError for a file with other sections only
C24_Witness ==
    /\ probe.op = "get_region"
    /\ ~Truthy(probe.input.env)
    /\ probe.input.file.state = "ok"
    /\ probe.input.profile = "default"
    /\ probe.input.file.sections = {"profile foo", "other"}
    /\ probe.result.raised = "NoProfileError"

\* C25 as stated: a failed response with a JSON AWS content type and a JSON
\* object with __type is classified with the part of __type after its last
\* '#', the message member, and is refreshable exactly when that code is in
\* the JSON refresh list.
C25_Original ==
    LET body == probe.input.body
        res == probe.result
    IN  (/\ probe.op = "_process_error"
         /\ probe.input.awz
         /\ body.shape = "awz") =>
          /\ res.raised = "none"
          /\ res.aws.is
          /\ res.aws.type = <<body.code[Len(body.code)]>>
          /\ "message" \in body.fields =>
               res.aws.message = BodyVal("message")
          /\ res.need <=> body.code[Len(body.code)] \in _REFRESH_EXCEPTIONS

\* C25: a failed response of status 400 with a JSON AWS content type and a
\* JSON object with __type is classified with the part of __type after its
\* first '#' (all of it without '#'), the message member, and is
\* refreshable exactly when that code is in the JSON refresh list.
C25_AwzClassification ==
    LET body == probe.input.body
        res == probe.result
        stripped == IF Len(body.code) = 1 THEN body.code
                    ELSE SubSeq(body.code, 2, Len(body.code))
    IN  (/\ probe.op = "_process_error"
         /\ probe.input.code = 400
         /\ probe.input.awz
         /\ body.shape = "awz") =>
          /\ res.raised = "none"
          /\ res.aws.is
          /\ res.aws.type = stripped
          /\ "message" \in body.fields =>
               res.aws.message = BodyVal("message")
          /\ res.need <=>
               (Len(stripped) = 1 /\ stripped[1] \in _REFRESH_EXCEPTIONS)

\* the DynamoDB answer was classified, its namespace dropped, refreshable
C25_Witness ==
    /\ probe.op = "_process_error"
    /\ probe.input.code = 400
    /\ probe.input.awz
    /\ probe.input.body.code = <<"com.amazonaws.dynamodb.v20120810",
                                 "MissingAuthenticationTokenException">>
    /\ probe.result.need
    /\ probe.result.aws.type = <<"MissingAuthenticationTokenException">>
    /\ probe.result.aws.message = BodyVal("message")

\* C26: a response with a JSON AWS content type whose body is no JSON object
\* with __type goes on to the XML step, and _process_error returns an
\* XML-shaped error or (False, None); no exception escapes it.
C26_FallsThroughToXml ==
    LET body == probe.input.body
        res == probe.result
    IN  (/\ probe.op = "_process_error"
         /\ probe.input.awz
         /\ \/ body.shape \in {"json", "text", "xmlother"}
            \/ body.shape = "xml" /\ "Message" \in body.fields) =>
          /\ res.raised = "none"
          /\ IF body.shape = "xml"
             THEN res.aws.is /\ res.aws.type = body.code
             ELSE ~res.need /\ ~res.aws.is

\* C27: the answer to the last request of a fetch had a body the classifier
\* does not know: the fetch is over, it raised the HTTP error of that
\* answer, sent nothing more and did not call reset().
C27_UnrecognisedBodyRaisesHttpError ==
    \A f \in Fetches :
        LET r == fetches[f]
        IN  (/\ Len(r.responses) >= 1
             /\ r.responses[Len(r.responses)] \in UnrecognisedAnswers)
            => /\ r.pc = "done"
               /\ r.outcome.kind = "HTTPError"
               /\ r.outcome.code = r.responses[Len(r.responses)].code
               /\ r.sends = Len(r.responses)
               /\ r.resets = Len(r.responses) - 1

\* C28 as stated: no code is in both of the refresh lists the classifier
\* consults.
C28_Original ==
    probe.op = "_process_error" =>
        _REFRESH_EXCEPTIONS \cap _REFRESH_XML_EXCEPTIONS = {}

\* C28: AuthFailure is the one code in both refresh lists: a JSON-shaped
\* error that is refreshable is refreshable as an XML error of the same code
\* exactly when its code is AuthFailure.
C28_OnlyAuthFailureShared ==
    /\ probe.op = "_process_error" =>
         _REFRESH_EXCEPTIONS \cap _REFRESH_XML_EXCEPTIONS = {"AuthFailure"}
    /\ (/\ probe.op = "_process_error"
        /\ probe.input.body.shape = "awz"
        /\ probe.result.raised = "none"
        /\ probe.result.need) =>
         (ProcessError(HTTPError(400, FALSE,
                                 BodyWith("xml", probe.result.aws.type,
                                          {"Message"}))).need
          <=> probe.result.aws.type = <<"AuthFailure">>)

\* a JSON-shaped AuthFailure was classified refreshable
C28_Witness ==
    /\ probe.op = "_process_error"
    /\ probe.input.code = 400
    /\ probe.input.awz
    /\ probe.input.body.shape = "awz"
    /\ probe.input.body.code = <<"AuthFailure">>
    /\ probe.result.need
    /\ probe.result.aws.type = <<"AuthFailure">>

\* C29 as stated: an <Error> body with Code, Message, RequestId and HostId
\* is classified with code Code, message Message, request_id RequestId and
\* resource HostId, refreshable when Code is ExpiredToken.
C29_Original ==
    LET body == probe.input.body
        res == probe.result
    IN  (/\ probe.op = "_process_error"
         /\ body.shape = "xml"
         /\ {"Message", "RequestId", "HostId"} \subseteq body.fields) =>
          /\ res.raised = "none"
          /\ res.aws.is
          /\ res.aws.type = body.code
          /\ res.aws.message = BodyVal("Message")
          /\ res.aws.request_id = BodyVal("RequestId")
          /\ res.aws.resource = BodyVal("HostId")
          /\ body.code = <<"ExpiredToken">> => res.need

\* C29: an <Error> body with Code, Message, RequestId and HostId, not
\* answered with status 400 and a JSON AWS content type, is classified with
\* code Code, message Message, request_id RequestId and the Resource
\* element as resource, none if there is no such element; it is refreshable
\* when Code is ExpiredToken.
C29_XmlErrorFields ==
    LET body == probe.input.body
        res == probe.result
    IN  (/\ probe.op = "_process_error"
         /\ ~(probe.input.code = 400 /\ probe.input.awz)
         /\ body.shape = "xml"
         /\ {"Message", "RequestId", "HostId"} \subseteq body.fields) =>
          /\ res.raised = "none"
          /\ res.aws.is
          /\ res.aws.type = body.code
          /\ res.aws.message = BodyVal("Message")
          /\ res.aws.request_id = BodyVal("RequestId")
          /\ res.aws.resource = IF "Resource" \in body.fields
                                THEN BodyVal("Resource") ELSE None
          /\ body.code = <<"ExpiredToken">> => res.need

\* the S3 answer was classified refreshable, without a resource
C29_Witness ==
    /\ probe.op = "_process_error"
    /\ probe.input.code = 400
    /\ ~probe.input.awz
    /\ probe.input.body =
         BodyWith("xml", <<"ExpiredToken">>, {"Message", "RequestId", "HostId"})
    /\ probe.result.need
    /\ probe.result.aws.request_id = BodyVal("RequestId")
    /\ probe.result.aws.resource = None

\* C30: every request signed by a client built through the public
\* constructor carries X-Amz-Security-Token exactly when the provider holds
\* a token that came from the environment, the shared credentials file or
\* the instance metadata; static credentials without a token send none.
C30_TokenHeaderOnlyFromSource ==
    [][(/\ auth.client = None
        /\ \E f \in Fetches : fetches'[f].sends = fetches[f].sends + 1)
       => (SecurityTokenHeader(auth') # None
           <=> auth'.security_token.src
                   \in {"env", "metadata", "default", "foo"})]_vars


\* C31: every attempt of a fetch is signed afresh: the Date header and the
\* Authorization value are computed from the time of that attempt and from
\* the provider's credentials as they are then, the security token header
\* is there exactly when the provider holds a token then, and the signing
\* starts from the caller's headers, which it leaves as they were passed.
C31_FreshSignaturePerAttempt ==
    [][probe'.attempts = probe.attempts + 1 =>
        LET h == probe'.result.headers
            authorization == DictGet(h, HeaderName("authorization", TRUE))
            amz_date == Val("strftime", "%Y%m%dT%H%M%SZ", probe'.now)
            token == HeaderName("x-amz-security-token", TRUE)
        IN  /\ DictGet(h, HeaderName("date", TRUE)) = amz_date
            /\ authorization.signature.amz_date = amz_date
            /\ authorization.access_key = auth.access_key
            /\ authorization.signature.secret_key = auth.secret_key
            /\ token \in DictKeys(h) <=> Truthy(auth.security_token)
            /\ Truthy(auth.security_token) =>
                 DictGet(h, token) = auth.security_token
            /\ probe'.input.headers = probe.input.original
            /\ \A i \in DOMAIN probe.input.original :
                 LET item == probe.input.original[i]
                 IN  item[1] # HeaderName("date", TRUE) =>
                       DictGet(h, item[1]) = item[2]]_vars

\* the retry was signed with the credentials of the second refresh, a
\* second later, from the caller's headers
C31_Witness ==
    /\ probe.op = "_create_request"
    /\ probe.attempts = 2
    /\ probe.now = 1
    /\ auth.access_key = Val("metadata", "AccessKeyId", 2)
    /\ DictGet(probe.result.headers,
               HeaderName("authorization", TRUE)).access_key = auth.access_key
    /\ probe.input.original # <<>>
    /\ probe.input.headers = probe.input.original


\* the dicts with the items of d, in every insertion order
Reorderings(d) ==
    {[i \in DOMAIN d |-> d[f[i]]] : f \in Permutations(DOMAIN d)}

\* C32 as stated: signing the same headers and the same query pairs in any
\* key order, with the same credentials at the same time, gives the same
\* canonical headers, signed headers list, canonical query string and
\* Authorization value.
C32_Original ==
    [][probe'.attempts = probe.attempts + 1 =>
        \A h \in Reorderings(probe.input.original),
           q \in Reorderings(probe.input.query_args) :
            LET r == CreateRequest(auth, probe'.now, q, h).request
                authorization == HeaderName("authorization", TRUE)
            IN  /\ r.query_string = probe'.result.query_string
                /\ DictGet(r.headers, authorization)
                     = DictGet(probe'.result.headers, authorization)]_vars

\* C32: signing the same headers, no two names of which differ only in case,
\* and the same query pairs in any key order, with the same credentials at
\* the same time, gives the same canonical headers, signed headers list,
\* canonical query string and Authorization value.
C32_OrderIndependent ==
    [][(/\ probe'.attempts = probe.attempts + 1
        /\ \A i, j \in DOMAIN probe.input.original :
             Lower(probe.input.original[i][1])
                 = Lower(probe.input.original[j][1]) => i = j) =>
        \A h \in Reorderings(probe.input.original),
           q \in Reorderings(probe.input.query_args) :
            LET r == CreateRequest(auth, probe'.now, q, h).request
                authorization == HeaderName("authorization", TRUE)
            IN  /\ r.query_string = probe'.result.query_string
                /\ DictGet(r.headers, authorization)
                     = DictGet(probe'.result.headers, authorization)]_vars

\* a request was signed whose query arguments and headers were passed out
\* of their sorted order
C32_Witness ==
    /\ probe.op = "_create_request"
    /\ probe.attempts = 1
    /\ probe.input.query_args =
         <<<<"Version", "2012-11-05">>, <<"Action", "ListQueues">>>>
    /\ probe.input.original =
         <<<<HeaderName("x-foo", TRUE), Val("hdr", "a", 0)>>,
           <<HeaderName("host", FALSE), Val("hdr", "a", 0)>>>>
    /\ probe.result.query_string =
         <<<<Quote("Action"), Quote("ListQueues")>>,
           <<Quote("Version"), Quote("2012-11-05")>>>>
    /\ DictGet(probe.result.headers,
               HeaderName("authorization", TRUE)).signed_headers =
         <<"content-length", "date", "host", "x-amz-content-sha256", "x-foo">>


\* C39: the canonical headers of a signed request have one line per name of
\* the request's headers, case ignored, the name in lower case, the value
\* stripped of surrounding whitespace and that of the last header of the
\* name, the lines in ASCII order of the names; the signed headers list is
\* the names of the lines.
C39_CanonicalHeaders ==
    (probe.op = "_create_request" /\ probe.attempts >= 1) =>
        LET authorization == HeaderName("authorization", TRUE)
            signed == DictGet(probe.result.headers, authorization)
            lines == signed.signature.request.headers_string
            sent == SelectSeq(probe.result.headers,
                              LAMBDA item : item[1] # authorization)
            last(l) == CHOOSE i \in DOMAIN sent :
                          /\ Lower(sent[i][1]).l = l
                          /\ \A j \in DOMAIN sent :
                               Lower(sent[j][1]).l = l => j <= i
            place(l) == CHOOSE n \in DOMAIN AsciiOrder : AsciiOrder[n] = l
        IN  /\ {lines[n][1] : n \in DOMAIN lines}
                 = {Lower(sent[i][1]).l : i \in DOMAIN sent}
            /\ \A m, n \in DOMAIN lines :
                 m < n => place(lines[m][1]) < place(lines[n][1])
            /\ \A n \in DOMAIN lines :
                 lines[n][2] = Strip(sent[last(lines[n][1])][2])
            /\ signed.signed_headers = [n \in DOMAIN lines |-> lines[n][1]]


\* C33: in the non-blocking client with a Dynamic provider, no step signs
\* and sends a request while the provider's access_key or secret_key is
\* empty, however the callbacks of overlapping fetches interleave.
C33_NeverSignedWithoutKeys ==
    [][(/\ mode = "async"
        /\ DynamicOrigin
        /\ \E f \in Fetches : fetches'[f].sends = fetches[f].sends + 1)
       => ~NeedsCredentials(auth')]_vars


\* C34: in the non-blocking client the future of a fetch is resolved, and
\* once: no exception of a callback leaves it pending, and no call ends
\* with a future resolved twice.
C34_FutureResolvedOnce ==
    mode = "async" =>
        \A f \in Fetches :
            /\ fetches[f].pc # "hung"
            /\ fetches[f].resolved <= 1
            /\ (fetches[f].pc = "done" /\ fetches[f].outcome.via = "future")
                   => fetches[f].resolved = 1

\* C35: a fetch ends in the non-blocking client as it ends in the blocking
\* one: with an outcome that reaches the caller, and, when a metadata GET of
\* its refresh failed, with the credentials error.
C35_ModesEquivalent ==
    \A f \in Fetches :
        LET r == fetches[f]
        IN  r.pc \in {"done", "hung"} =>
              /\ r.pc = "done"
              /\ r.outcome.via # "dropped"
              /\ (r.sends = Len(r.responses)
                  /\ r.refreshes > r.sends
                  /\ r.outcome.kind \in {"HTTPError", "OSError",
                                         "NoCredentialsError"})
                     => r.outcome.kind = "NoCredentialsError"


\* C36: with Dynamic credentials, the step that receives a refreshable
\* error for the retry calls reset() again: the fetch ends with the
\* classified error after two requests, two calls of reset() and a
\* refresh() per attempt that began without credentials, and the provider's
\* keys are empty.
C36_ResetAfterEveryRefreshableError ==
    [][\A f \in Fetches :
          (/\ DynamicOrigin
           /\ Len(fetches'[f].responses) = Len(fetches[f].responses) + 1
           /\ Len(fetches'[f].responses) = 2
           /\ fetches'[f].responses[1] \in RefreshableAnswers
           /\ fetches'[f].responses[2] \in RefreshableAnswers)
          => /\ fetches'[f].resets = 2
             /\ fetches'[f].sends = 2
             /\ fetches'[f].refreshes =
                    IF fetches'[f].entry_needs THEN 2 ELSE 1
             /\ fetches'[f].pc = "done"
             /\ fetches'[f].outcome.kind = "AWSError"
             /\ auth' = Reset(auth)
             /\ NeedsCredentials(auth')]_vars

\* a fetch that began without credentials ended after two refreshable
\* errors, two resets and two refreshes, the provider empty
C36_Witness ==
    \E f \in Fetches :
        /\ DynamicOrigin
        /\ fetches[f].pc = "done"
        /\ fetches[f].entry_needs
        /\ fetches[f].responses = <<ExpiredTokenXml, MissingTokenAwz>>
        /\ fetches[f].resets = 2
        /\ fetches[f].refreshes = 2
        /\ NeedsCredentials(auth)

\* C37: a non-blocking refresh() one of whose metadata GETs failed ends
\* with NoCredentialsError if the failure is an HTTP error 599, and with
\* the failure itself otherwise; no field of the provider is assigned.
C37_AsyncOnly599Converted ==
    (/\ call.op = "refresh"
     /\ call.before.is_async
     /\ ~call.before.local_credentials
     /\ call.error.kind # "none")
    => /\ call.pc = "raised"
       /\ IF call.error.kind = "HTTPError" /\ call.error.code = 599
          THEN call.raised = "NoCredentialsError"
          ELSE call.raised = call.error.kind /\ call.code = call.error.code
       /\ auth = call.before

\* the role-credentials GET of a non-blocking refresh failed with 502
C37_Witness ==
    /\ call.op = "refresh"
    /\ call.before.is_async
    /\ call.error = MetaError([kind |-> "HTTPError", code |-> 502], "creds")
    /\ call.pc = "raised"
    /\ call.raised = "HTTPError"
    /\ call.code = 502
    /\ auth = call.before


\* C38: _parse_xml_error matches a top-level Error, then Errors/Error, then
\* Response/Errors/Error, whose RequestId becomes the RequestID next to
\* Errors, then a top-level element whose only child is Message, the tag of
\* which becomes the code; every other document raises ValueError.
C38_XmlShapesInOrder ==
    probe.op = "_parse_xml_error" =>
        LET root == probe.input.tag
            c == probe.input.content
            res == probe.result
        IN  IF root = "Error"
            THEN res = XmlResult("none", c)
            ELSE IF root = "Errors" /\ XmlIn("Error", c)
            THEN res = XmlResult("none", c.items["Error"])
            ELSE IF root = "Response" /\ XmlIn("Errors", c)
                    /\ XmlIn("Error", c.items["Errors"])
            THEN /\ res.raised = "none"
                 /\ res.error.items["Code"] = XmlText("Code")
                 /\ res.error.items["Message"] = XmlText("Message")
                 /\ res.error.items["RequestId"] =
                      IF XmlIn("RequestID", c) THEN XmlText("RequestID")
                      ELSE XmlNone
            ELSE IF c.kind = "dict" /\ DOMAIN c.items = {"Message"}
            THEN /\ res.raised = "none"
                 /\ res.error.items["Code"] = XmlText(root)
                 /\ res.error.items["Message"] = XmlText("Message")
            ELSE res = XmlResult("ValueError", XmlNone)

====
